---- MODULE Spec2Model ----
(***************************************************************************)
(* mo-dump: a model of src/main.cpp.                                       *)
(*                                                                         *)
(* The program loads a GNU gettext .mo file into a std::string, decodes it *)
(* (mo_parser::process_mo_contents) into an unordered_map and prints it.   *)
(*                                                                         *)
(* A uint32_t is kept as a record [hi, lo] of two 16-bit halves, so that   *)
(* the 32-bit wrap of the code's unsigned arithmetic is computed exactly   *)
(* (TLC's own integers are 32-bit signed).  The struct                     *)
(* overlay of the code, a cast of content.c_str() to a mo_header pointer,  *)
(* reads the fields in host byte order; the model is of a little-endian    *)
(* host that allows unaligned loads (x86-64, the usual build).             *)
(***************************************************************************)
EXTENDS Integers, Sequences, FiniteSets, TLC

(***************************************************************************)
(* Bounds of the model.                                                    *)
(***************************************************************************)
\* entries in an encoded (well-formed) catalog
MaxEntries == 2
\* bytes in an original string of an encoded catalog
MaxStrLen == 1
\* table entries the loop may read outside the buffer and carry on
MaxWildReads == 1
\* bytes in an input of quote_escape_string
MaxEscLen == 2

(***************************************************************************)
(* Program constants.                                                      *)
(***************************************************************************)
\* sizeof(mo_header): five uint32_t
HeaderSize == 20
\* sizeof(mo_entry): two uint32_t; also the literal 8 of the table gate
EntrySize == 8
\* the characters quote_escape_string tells apart
CharNL == 10
CharTAB == 9
CharNUL == 0
CharQuote == 34
CharBackslash == 92

Half == 65536

(***************************************************************************)
(* uint32_t                                                                *)
(***************************************************************************)
W(h, l) == [hi |-> h, lo |-> l]

WordOf(n) == W(n \div Half, n % Half)

\* header->magic != 0x950412de
MAGIC == W(38148, 4830)

\* a + b in uint32_t: the carry out of bit 31 is dropped
Add32(a, b) ==
  LET s == a.lo + b.lo
  IN  W((a.hi + b.hi + (s \div Half)) % Half, s % Half)

\* 8 * a in uint32_t (8 is an int, a is unsigned: the product is unsigned)
Mul8(a) ==
  LET p == EntrySize * a.lo
  IN  W((EntrySize * a.hi + (p \div Half)) % Half, p % Half)

\* (uint32_t) w > (size_t) n, for n < 65536
GreaterThanSize(w, n) == w.hi > 0 \/ w.lo > n

\* (unsigned) i < (uint32_t) w, for i < 65536
IndexBelow(i, w) == w.hi > 0 \/ i < w.lo

(***************************************************************************)
(* The buffer: content is the file's bytes; content.c_str() is those bytes *)
(* followed by one NUL.                                                    *)
(***************************************************************************)
\* content.c_str()[p]: byte p of the file, or the NUL that ends the array
c_str(content, p) == IF p < Len(content) THEN content[p + 1] ELSE 0

\* a uint32_t field at byte position p of content.c_str() (little-endian host)
Read32(content, p) ==
  W(c_str(content, p + 2) + 256 * c_str(content, p + 3),
    c_str(content, p) + 256 * c_str(content, p + 1))

\* (mo_header*) content.c_str()
Header(content) ==
  [magic    |-> Read32(content, 0),
   version  |-> Read32(content, 4),
   number   |-> Read32(content, 8),
   o_offset |-> Read32(content, 12),
   t_offset |-> Read32(content, 16)]

\* table[i] of a table at byte offset tab lies inside content.c_str()
EntryReadable(content, tab, i) ==
  tab.hi = 0 /\ tab.lo + EntrySize * i + EntrySize <= Len(content) + 1

\* table[i] of a table at byte offset tab lies inside the file's bytes
EntryInsideFile(content, tab, i) ==
  tab.hi = 0 /\ tab.lo + EntrySize * i + EntrySize <= Len(content)

\* ((mo_entry*) (content.c_str() + tab))[i], when readable
ReadEntry(content, tab, i) ==
  [length |-> Read32(content, tab.lo + EntrySize * i),
   offset |-> Read32(content, tab.lo + EntrySize * i + 4)]

\* what a read of a table entry outside content.c_str() may return, when it
\* returns at all: whatever lies in the memory behind the buffer
WildEntries ==
  { [length |-> W(0, 0), offset |-> W(0, 0)],
    [length |-> W(0, 1), offset |-> W(65535, 65535)] }

\* the loop's gate written with >= for >: a string that ends at the last byte
\* of the buffer is refused
EntryPastEnd_OffByOne(e, size) ==
  LET s == Add32(e.offset, e.length) IN s.hi > 0 \/ s.lo >= size

\* the gate of the loop body: e.offset + e.length > size, in uint32_t
EntryPastEnd(e, size) == GreaterThanSize(Add32(e.offset, e.length), size)

\* content.substr(pos, len) throws std::out_of_range when pos > size()
SubstrThrows(content, e) == GreaterThanSize(e.offset, Len(content))

\* content.substr(pos, len): the bytes [pos, min(pos + len, size))
substr(content, e) ==
  LET size == Len(content)
      pos  == e.offset.lo
      rest == size - pos
      n    == IF e.length.hi > 0 \/ e.length.lo > rest THEN rest ELSE e.length.lo
  IN  SubSeq(content, pos + 1, pos + n)

\* hashmap_[msgid] = msgstr in place of emplace: a present key is overwritten
store_message_Assign(map, msgid, msgstr) ==
  [k \in DOMAIN map \cup {msgid} |-> IF k = msgid THEN msgstr ELSE map[k]]

\* hashmap_.emplace(msgid, msgstr): no effect when the key is present
store_message(map, msgid, msgstr) ==
  IF msgid \in DOMAIN map
    THEN map
    ELSE [k \in DOMAIN map \cup {msgid} |-> IF k = msgid THEN msgstr ELSE map[k]]

(***************************************************************************)
(* quote_escape_string                                                     *)
(***************************************************************************)
\* the switch without its case for NUL
EscapeChar_NoNulCase(c) ==
  CASE c = CharNL        -> <<CharBackslash, 110>>
    [] c = CharTAB       -> <<CharBackslash, 116>>
    [] c = CharQuote     -> <<CharBackslash, CharQuote>>
    [] c = CharBackslash -> <<CharBackslash, CharBackslash>>
    [] OTHER             -> <<c>>

\* one pass of the switch of the loop body: what is appended for c
EscapeChar(c) ==
  CASE c = CharNL        -> <<CharBackslash, 110>>
    [] c = CharTAB       -> <<CharBackslash, 116>>
    [] c = CharNUL       -> <<CharBackslash, 48>>
    [] c = CharQuote     -> <<CharBackslash, CharQuote>>
    [] c = CharBackslash -> <<CharBackslash, CharBackslash>>
    [] OTHER             -> <<c>>

RECURSIVE EscapeLoop(_, _)
EscapeLoop(str, result) ==
  IF str = <<>> THEN result
  ELSE EscapeLoop(Tail(str), result \o EscapeChar(Head(str)))

quote_escape_string(str) == EscapeLoop(str, <<CharQuote>>) \o <<CharQuote>>

(***************************************************************************)
(* Inputs: the bytes of the file.  Well-formed files are built by laying a *)
(* list of (original, translated) pairs out in the .mo layout: the header, *)
(* the original table, the translated table, the strings.  Malformed files *)
(* are such files with header or table words overwritten, or cut short.    *)
(***************************************************************************)
WordBytes(w) == <<w.lo % 256, w.lo \div 256, w.hi % 256, w.hi \div 256>>

RECURSIVE StrData(_)
StrData(ps) ==
  IF ps = <<>> THEN <<>> ELSE Head(ps)[1] \o Head(ps)[2] \o StrData(Tail(ps))

\* where the originals and the translations of ps start in the file
StringsStart(ps) == HeaderSize + 2 * EntrySize * Len(ps)
OrigOffset(ps, k) == StringsStart(ps) + Len(StrData(SubSeq(ps, 1, k - 1)))
TransOffset(ps, k) == OrigOffset(ps, k) + Len(ps[k][1])

RECURSIVE OrigTable(_, _)
OrigTable(ps, k) ==
  IF k > Len(ps) THEN <<>>
  ELSE WordBytes(WordOf(Len(ps[k][1]))) \o WordBytes(WordOf(OrigOffset(ps, k)))
       \o OrigTable(ps, k + 1)

RECURSIVE TransTable(_, _)
TransTable(ps, k) ==
  IF k > Len(ps) THEN <<>>
  ELSE WordBytes(WordOf(Len(ps[k][2]))) \o WordBytes(WordOf(TransOffset(ps, k)))
       \o TransTable(ps, k + 1)

Encode(ps, version) ==
  WordBytes(MAGIC) \o WordBytes(WordOf(version)) \o WordBytes(WordOf(Len(ps)))
  \o WordBytes(WordOf(HeaderSize))
  \o WordBytes(WordOf(HeaderSize + EntrySize * Len(ps)))
  \o OrigTable(ps, 1) \o TransTable(ps, 1) \o StrData(ps)

\* content with the four bytes at position p overwritten by the word w
Patch(content, p, w) ==
  [k \in 1..Len(content) |->
     IF k \in (p + 1)..(p + 4) THEN WordBytes(w)[k - p] ELSE content[k]]

Truncate(content, n) == SubSeq(content, 1, n)

RECURSIVE SeqsUpTo(_, _)
SeqsUpTo(S, n) ==
  IF n = 0 THEN {<<>>}
  ELSE LET shorter == SeqsUpTo(S, n - 1)
       IN  shorter \cup {Append(q, x) : q \in shorter, x \in S}

Originals == SeqsUpTo({97, 98}, MaxStrLen)
Translations == {<<>>, <<120, 121>>}
PairLists == SeqsUpTo(Originals \X Translations, MaxEntries)

\* the files that are overwritten or cut short
BaseFiles ==
  { Encode(<< <<<<97>>, <<120>>>>, <<<<98>>, <<121, 122>>>> >>, 0),
    Encode(<< <<<<97>>, <<120>>>> >>, 1) }

\* the words written over a header field or a table field
PatchWords ==
  { W(0, 0), W(0, 1), W(0, 2), W(0, 28), W(8192, 0), W(8192, 1),
    W(65535, 65535), W(65535, 65528), MAGIC, W(56850, 1173) }

HeaderFields == {0, 4, 8, 12, 16}
WordPositions(content) == {4 * k : k \in 0..((Len(content) \div 4) - 1)}

(***************************************************************************)
(* The state of a run.                                                     *)
(***************************************************************************)
VARIABLES
  argc,         \* main's argc
  openable,     \* whether std::ifstream(filename) succeeds
  argv2,        \* argv[2], read into action: "keys", "pairs" or anything else
  content,      \* the file's bytes (contents in the constructor)
  header,       \* the fields behind process_mo_contents' header pointer
  given,        \* how content was made: the pairs encoded, or a damaged file
  pc,           \* where the run is
  hashmap_,     \* mo_parser::hashmap_
  i,            \* the loop index of process_mo_contents
  diag,         \* which gate of process_mo_contents reported, if any
  cout,         \* what was written to std::cout
  cerr,         \* what was written to std::cerr
  exit,         \* how the process ended: "running", "0", "1", "SIGABRT", "SIGSEGV"
  readOutside,  \* whether a read touched a byte outside the file's bytes
  wildReads,    \* loop iterations that read a table entry outside c_str()
  escIn,        \* quote_escape_string's argument
  escOut        \* quote_escape_string's result

vars == <<argc, openable, argv2, content, given, header, pc, hashmap_, i, diag,
          cout, cerr, exit, readOutside, wildReads, escIn, escOut>>

inputs == <<argc, openable, argv2, content, given>>
escVars == <<escIn, escOut>>

NoEntries == <<>>

\* header before process_mo_contents sets it
NoHeader ==
  [magic |-> W(0, 0), version |-> W(0, 0), number |-> W(0, 0),
   o_offset |-> W(0, 0), t_offset |-> W(0, 0)]

Fresh ==
  /\ pc = "main"
  /\ header = NoHeader
  /\ hashmap_ = NoEntries
  /\ i = 0
  /\ diag = "none"
  /\ cout = <<>>
  /\ cerr = <<>>
  /\ exit = "running"
  /\ readOutside = FALSE
  /\ wildReads = 0

\* a run on a well-formed file
InitEncoded ==
  /\ argc = 3 /\ openable = TRUE
  /\ argv2 \in {"keys", "pairs", "other"}
  /\ \E ps \in PairLists, version \in {0, 1} :
       /\ content = Encode(ps, version)
       /\ given = [kind |-> "encoded", pairs |-> ps]

\* a run on a file with one header field and one more word overwritten
InitPatched ==
  /\ argc = 3 /\ openable = TRUE
  /\ argv2 = "pairs"
  /\ \E b \in BaseFiles, p1 \in HeaderFields, w1 \in PatchWords, w2 \in PatchWords :
       \E p2 \in WordPositions(b) :
         /\ content = Patch(Patch(b, p1, w1), p2, w2)
         /\ given = [kind |-> "patched", pairs |-> <<>>]

\* a run on a file cut short
InitTruncated ==
  /\ argc = 3 /\ openable = TRUE
  /\ argv2 \in {"keys", "other"}
  /\ \E b \in BaseFiles, p1 \in {0, 4}, w1 \in {MAGIC, W(0, 0), W(0, 2)} :
       \E n \in 0..Len(b) :
         /\ content = Truncate(Patch(b, p1, w1), n)
         /\ given = [kind |-> "truncated", pairs |-> <<>>]

\* a run that main ends before the file is decoded
InitRefused ==
  /\ argc \in 1..3 /\ openable \in BOOLEAN
  /\ argc < 3 \/ ~openable
  /\ argv2 \in {"keys", "other"}
  /\ content \in BaseFiles
  /\ given = [kind |-> "unread", pairs |-> <<>>]

Init ==
  /\ Fresh
  /\ escIn = <<>> /\ escOut = <<>>
  /\ InitEncoded \/ InitPatched \/ InitTruncated \/ InitRefused

(***************************************************************************)
(* main, up to the construction of mo_parser.                              *)
(***************************************************************************)
Exit(code) == pc' = "exited" /\ exit' = code

\* if (argc < 3) { print_usage(); return 1; }
CheckArgs ==
  /\ pc = "main"
  /\ IF argc < 3
       THEN cerr' = Append(cerr, "usage") /\ Exit("1")
       ELSE cerr' = cerr /\ pc' = "open" /\ exit' = exit
  /\ UNCHANGED <<inputs, escVars, header, hashmap_, i, diag, cout, readOutside, wildReads>>

\* if (!std::ifstream(filename)) { print_usage(); ...; return 1; }
OpenFile ==
  /\ pc = "open"
  /\ IF ~openable
       THEN cerr' = cerr \o <<"usage", "could not open file">> /\ Exit("1")
       ELSE cerr' = cerr /\ pc' = "ctor" /\ exit' = exit
  /\ UNCHANGED <<inputs, escVars, header, hashmap_, i, diag, cout, readOutside, wildReads>>

\* mo_parser mo{filename}: the file is opened again and read whole (the model
\* takes the second open to succeed as the first did)
Construct ==
  /\ pc = "ctor"
  /\ pc' = "size"
  /\ UNCHANGED <<inputs, escVars, header, hashmap_, i, diag, cout, cerr, exit,
                 readOutside, wildReads>>

(***************************************************************************)
(* mo_parser::process_mo_contents, called by the constructor of mo_parser  *)
(* on the whole file.                                                      *)
(***************************************************************************)
size == Len(content)

\* a gate reports to std::cerr and returns; main goes on to print the count
Report(what) ==
  /\ diag' = what
  /\ cerr' = Append(cerr, what)
  /\ pc' = "count"

Pass(next) == pc' = next /\ diag' = diag /\ cerr' = cerr

\* if (size < sizeof(mo_header)) ...; mo_header* header = (mo_header*) content.c_str()
CheckSize ==
  /\ pc = "size"
  /\ IF size < HeaderSize
       THEN Report("TooSmall") /\ header' = header
       ELSE Pass("magic") /\ header' = Header(content)
  /\ UNCHANGED <<inputs, escVars, hashmap_, i, cout, exit, readOutside, wildReads>>

\* the magic gate with the version test placed before it
CheckMagic_VersionFirst ==
  /\ pc = "magic"
  /\ IF header.version # W(0, 0) /\ header.version # W(0, 1)
       THEN Report("BadVersion")
       ELSE IF header.magic # MAGIC THEN Report("BadMagic") ELSE Pass("version")
  /\ UNCHANGED <<inputs, escVars, header, hashmap_, i, cout, exit, readOutside, wildReads>>

\* if (header->magic != 0x950412de)
CheckMagic ==
  /\ pc = "magic"
  /\ IF header.magic # MAGIC THEN Report("BadMagic") ELSE Pass("version")
  /\ UNCHANGED <<inputs, escVars, header, hashmap_, i, cout, exit, readOutside, wildReads>>

\* if (header->version != 0 && header->version != 1)
CheckVersion ==
  /\ pc = "version"
  /\ IF header.version # W(0, 0) /\ header.version # W(0, 1)
       THEN Report("BadVersion") ELSE Pass("tables")
  /\ UNCHANGED <<inputs, escVars, header, hashmap_, i, cout, exit, readOutside, wildReads>>

\* header->o_offset + 8*header->number > size || (the same for t_offset)
TablesPastEnd(h, n) ==
  \/ GreaterThanSize(Add32(h.o_offset, Mul8(h.number)), n)
  \/ GreaterThanSize(Add32(h.t_offset, Mul8(h.number)), n)

CheckTables ==
  /\ pc = "tables"
  /\ IF TablesPastEnd(header, size) THEN Report("TableOutOfBounds") ELSE Pass("loop")
  /\ UNCHANGED <<inputs, escVars, header, hashmap_, i, cout, exit, readOutside, wildReads>>

(***************************************************************************)
(* The loop of process_mo_contents.  original[i] and translated[i] are     *)
(* read through pointers into content.c_str().  A read outside that array  *)
(* is undefined: the process dies (SIGSEGV) or the read returns whatever   *)
(* is there, and the iteration goes on with it.                            *)
(***************************************************************************)
InLoop == pc = "loop" /\ IndexBelow(i, header.number)

OrigReadable == EntryReadable(content, header.o_offset, i)
TransReadable == EntryReadable(content, header.t_offset, i)

MayReadWild == wildReads < MaxWildReads

\* the values original[i] may have
Origs ==
  IF OrigReadable THEN {ReadEntry(content, header.o_offset, i)}
  ELSE IF MayReadWild THEN WildEntries ELSE {}

\* the values translated[i] may have
Transs ==
  IF TransReadable THEN {ReadEntry(content, header.t_offset, i)}
  ELSE IF MayReadWild THEN WildEntries ELSE {}

\* the iteration read original[i] alone (the || did not evaluate its right side)
ReadOrigOnly ==
  /\ readOutside' = (readOutside \/ ~EntryInsideFile(content, header.o_offset, i))
  /\ wildReads' = IF OrigReadable THEN wildReads ELSE wildReads + 1

\* the iteration read original[i] and translated[i]
ReadBoth ==
  /\ readOutside' = (\/ readOutside
                     \/ ~EntryInsideFile(content, header.o_offset, i)
                     \/ ~EntryInsideFile(content, header.t_offset, i))
  /\ wildReads' = IF OrigReadable /\ TransReadable THEN wildReads ELSE wildReads + 1

\* for (...; i < header->number; ...): the loop ends and the function returns
LoopEnd ==
  /\ pc = "loop"
  /\ ~IndexBelow(i, header.number)
  /\ pc' = "count"
  /\ UNCHANGED <<inputs, escVars, header, hashmap_, i, diag, cout, cerr, exit,
                 readOutside, wildReads>>

\* original[i].offset + original[i].length > size
LoopOrigPastEnd ==
  /\ InLoop
  /\ \E oe \in Origs : EntryPastEnd(oe, size)
  /\ Report("EntryOutOfBounds")
  /\ ReadOrigOnly
  /\ UNCHANGED <<inputs, escVars, header, hashmap_, i, cout, exit>>

\* ... || translated[i].offset + translated[i].length > size
LoopTransPastEnd ==
  /\ InLoop
  /\ \E oe \in Origs, te \in Transs :
       ~EntryPastEnd(oe, size) /\ EntryPastEnd(te, size)
  /\ Report("EntryOutOfBounds")
  /\ ReadBoth
  /\ UNCHANGED <<inputs, escVars, header, hashmap_, i, cout, exit>>

\* content.substr(offset, length) throws std::out_of_range; nothing catches
\* it, so std::terminate aborts the process
LoopThrows ==
  /\ InLoop
  /\ \E oe \in Origs, te \in Transs :
       /\ ~EntryPastEnd(oe, size) /\ ~EntryPastEnd(te, size)
       /\ SubstrThrows(content, oe) \/ SubstrThrows(content, te)
  /\ cerr' = Append(cerr, "terminate: std::out_of_range")
  /\ Exit("SIGABRT")
  /\ ReadBoth
  /\ UNCHANGED <<inputs, escVars, header, hashmap_, i, diag, cout>>

\* store_message(msgid, msgstr); ++i
LoopStores ==
  /\ InLoop
  /\ \E oe \in Origs, te \in Transs :
       /\ ~EntryPastEnd(oe, size) /\ ~EntryPastEnd(te, size)
       /\ ~SubstrThrows(content, oe) /\ ~SubstrThrows(content, te)
       /\ hashmap_' = store_message(hashmap_, substr(content, oe), substr(content, te))
  /\ i' = i + 1
  /\ ReadBoth
  /\ UNCHANGED <<inputs, escVars, header, pc, diag, cout, cerr, exit>>

\* the read of original[i] or of translated[i] outside c_str() faults
LoopFaults ==
  /\ InLoop
  /\ \/ ~OrigReadable
     \/ ~TransReadable /\ \E oe \in Origs : ~EntryPastEnd(oe, size)
  /\ Exit("SIGSEGV")
  /\ readOutside' = TRUE
  /\ UNCHANGED <<inputs, escVars, header, hashmap_, i, diag, cout, cerr, wildReads>>

(***************************************************************************)
(* main, after the construction of mo_parser.                              *)
(***************************************************************************)
Keys == DOMAIN hashmap_

\* std::cout << "Read " << mo.get_map().size() << " entries:\n"
PrintCount ==
  /\ pc = "count"
  /\ cout' = Append(cout, [line |-> "Read", n |-> Cardinality(Keys), rows |-> {}])
  /\ pc' = "dump"
  /\ UNCHANGED <<inputs, escVars, header, hashmap_, i, diag, cerr, exit, readOutside,
                 wildReads>>

\* the rows of the dump, in the order the unordered_map gives them, and the
\* std::endl that ends the output
Rows(rows) ==
  cout' = cout \o << [line |-> "rows", n |-> Cardinality(rows), rows |-> rows],
                     [line |-> "", n |-> 0, rows |-> {}] >>

\* if (action == "keys")
DumpKeys ==
  /\ pc = "dump" /\ argv2 = "keys"
  /\ Rows({<<quote_escape_string(k)>> : k \in Keys})
  /\ cerr' = cerr
  /\ Exit("0")
  /\ UNCHANGED <<inputs, escVars, header, hashmap_, i, diag, readOutside, wildReads>>

\* else if (action == "pairs")
DumpPairs ==
  /\ pc = "dump" /\ argv2 = "pairs"
  /\ Rows({<<quote_escape_string(k), quote_escape_string(hashmap_[k])>> : k \in Keys})
  /\ cerr' = cerr
  /\ Exit("0")
  /\ UNCHANGED <<inputs, escVars, header, hashmap_, i, diag, readOutside, wildReads>>

\* else print_usage(); main then falls off its end: exit status 0
DumpUsage ==
  /\ pc = "dump" /\ argv2 \notin {"keys", "pairs"}
  /\ Rows({})
  /\ cerr' = Append(cerr, "usage")
  /\ Exit("0")
  /\ UNCHANGED <<inputs, escVars, header, hashmap_, i, diag, readOutside, wildReads>>

Next ==
  \/ CheckArgs \/ OpenFile \/ Construct
  \/ CheckSize \/ CheckMagic \/ CheckVersion \/ CheckTables
  \/ LoopEnd \/ LoopOrigPastEnd \/ LoopTransPastEnd \/ LoopThrows
  \/ LoopStores \/ LoopFaults
  \/ PrintCount \/ DumpKeys \/ DumpPairs \/ DumpUsage

Spec == Init /\ [][Next]_vars

(***************************************************************************)
(* quote_escape_string on its own: the argument is drawn, the function is  *)
(* applied.                                                                *)
(***************************************************************************)
EscChars == {CharNUL, CharTAB, CharNL, CharQuote, CharBackslash, 48, 110, 116, 200}
EscInputs == SeqsUpTo(EscChars, MaxEscLen)

InitEsc ==
  /\ argc = 3 /\ openable = TRUE /\ argv2 = "keys"
  /\ content = <<>>
  /\ given = [kind |-> "unread", pairs |-> <<>>]
  /\ Fresh
  /\ escIn \in EscInputs
  /\ escOut = <<>>

Escape ==
  /\ escOut = <<>>
  /\ escOut' = quote_escape_string(escIn)
  /\ UNCHANGED <<inputs, header, escIn, pc, hashmap_, i, diag, cout, cerr, exit,
                 readOutside, wildReads>>

NextEsc == Escape

SpecEsc == InitEsc /\ [][NextEsc]_vars

(***************************************************************************)
(* What the claims speak of.  Sums here are taken without wrap-around.     *)
(***************************************************************************)
\* main went past its two refusals: the file is decoded
Decoding == argc >= 3 /\ openable

\* process_mo_contents has evaluated its four header gates
PastHeader == Decoding /\ pc \in {"loop", "count", "dump", "exited"}

HeaderGatesPass ==
  /\ size >= HeaderSize
  /\ header.magic = MAGIC
  /\ header.version \in {W(0, 0), W(0, 1)}

\* off + 8 * count > n, in arithmetic wide enough not to wrap
WideTablePastEnd(off, count, n) ==
  off.hi > 0 \/ count.hi > 0 \/ off.lo + EntrySize * count.lo > n

WideTablesPastEnd ==
  \/ WideTablePastEnd(header.o_offset, header.number, size)
  \/ WideTablePastEnd(header.t_offset, header.number, size)

\* e.offset + e.length > n, in arithmetic wide enough not to wrap
WidePastEnd(e, n) ==
  e.offset.hi > 0 \/ e.length.hi > 0 \/ e.offset.lo + e.length.lo > n

OrigEntry(k) == ReadEntry(content, header.o_offset, k)
TransEntry(k) == ReadEntry(content, header.t_offset, k)

\* the bytes buffer[offset .. offset + length) of an entry inside the buffer
Slice(e) == SubSeq(content, e.offset.lo + 1, e.offset.lo + e.length.lo)

Indices == 0..(header.number.lo - 1)

\* every gate of the format holds of the buffer
WellFormed ==
  /\ HeaderGatesPass
  /\ ~WideTablesPastEnd
  /\ \A k \in Indices :
       ~WidePastEnd(OrigEntry(k), size) /\ ~WidePastEnd(TransEntry(k), size)

\* the indices the loop has been through
Processed == IF pc = "loop" THEN 0..(i - 1) ELSE Indices

(***************************************************************************)
(* The claims.                                                             *)
(***************************************************************************)

\* C1: decoding has no partial success: once the per-entry bounds check has
\* failed at some index, the catalog the caller sees is empty, and the dumper
\* reports "Read 0 entries:".
C1_NoPartialCatalog ==
  (Decoding /\ diag = "EntryOutOfBounds") =>
     /\ hashmap_ = NoEntries
     /\ cout # <<>> => cout[1].n = 0

\* C2: the table bounds gate does not wrap: a buffer that passes the size,
\* magic and version gates and whose o_offset + 8*count or t_offset + 8*count,
\* taken without wrap-around, exceeds the size is rejected as
\* table-out-of-bounds.
C2_TableGateNoWrap ==
  (PastHeader /\ HeaderGatesPass /\ WideTablesPastEnd) => diag = "TableOutOfBounds"

\* C3: the per-entry bounds gate is exact: for a buffer that passes the table
\* bounds gate, the iteration at index i fails the decode if and only if
\* offset + length, taken without wrap-around, exceeds the size for the
\* original or the translated entry at i.
C3_EntryGateExact ==
  [][ (InLoop /\ ~WideTablesPastEnd) =>
        ( (diag' = "EntryOutOfBounds")
            <=> (\/ WidePastEnd(OrigEntry(i), size)
                 \/ WidePastEnd(TransEntry(i), size)) ) ]_vars

\* C4: a decode never aborts the process: every run that decodes a file ends
\* with exit status 0, in success or in exactly one of the five failures,
\* after the "Read <N> entries:" line was printed.
C4_NeverAborts ==
  (Decoding /\ pc = "exited") =>
     /\ exit = "0"
     /\ diag \in {"none", "TooSmall", "BadMagic", "BadVersion",
                  "TableOutOfBounds", "EntryOutOfBounds"}
     /\ cout # <<>> /\ cout[1].line = "Read"

\* C5: duplicate keys are first-wins: in a well-formed buffer, each original
\* string the loop has been through has exactly one entry in the catalog, and
\* its value is the translated string of the lowest index that carries it; the
\* later indices that carry it never change the value.
C5_FirstWins ==
  (PastHeader /\ WellFormed) =>
     LET orig  == [k \in Processed |-> Slice(OrigEntry(k))]
         trans == [k \in Processed |-> Slice(TransEntry(k))]
         first(k) == CHOOSE j \in 0..k :
                       orig[j] = orig[k] /\ \A m \in 0..(j - 1) : orig[m] # orig[k]
     IN  /\ Keys = {orig[k] : k \in Processed}
         /\ \A k \in Processed : hashmap_[orig[k]] = trans[first(k)]

\* C5's case: a well-formed buffer was decoded in which two indices carry the
\* same original string and different translated strings, and the catalog
\* holds the first.
C5_Witness ==
  /\ Decoding /\ pc = "exited" /\ WellFormed
  /\ \E j \in Indices, k \in Indices :
       /\ j < k
       /\ Slice(OrigEntry(j)) = Slice(OrigEntry(k))
       /\ Slice(OrigEntry(j)) # <<>>
       /\ Slice(TransEntry(j)) # Slice(TransEntry(k))
       /\ hashmap_[Slice(OrigEntry(k))] = Slice(TransEntry(j))

DistinctOriginals(ps) ==
  \A j \in 1..Len(ps), k \in 1..Len(ps) : j # k => ps[j][1] # ps[k][1]

\* C6: round trip: a buffer that encodes a list of pairs with distinct
\* originals decodes without a failure to exactly those pairs, each string
\* being the slice of the buffer its table entry names; with no pair the
\* catalog is empty and nothing is reported.
C6_RoundTrip ==
  (given.kind = "encoded" /\ DistinctOriginals(given.pairs)
     /\ Decoding /\ pc \in {"count", "dump", "exited"}) =>
     LET ps == given.pairs
     IN  /\ diag = "none" /\ cerr \in {<<>>, <<"usage">>}
         /\ exit \in {"running", "0"}
         /\ Keys = {ps[k][1] : k \in 1..Len(ps)}
         /\ \A k \in 1..Len(ps) :
              /\ hashmap_[ps[k][1]] = ps[k][2]
              /\ ps[k][1] = Slice(OrigEntry(k - 1))
              /\ ps[k][2] = Slice(TransEntry(k - 1))
         /\ ps = <<>> => hashmap_ = NoEntries
         /\ cout # <<>> => cout[1].n = Len(ps)

\* C6's case: a buffer encoding two pairs with distinct originals was decoded
\* and dumped.
C6_Witness ==
  /\ given.kind = "encoded" /\ Len(given.pairs) = 2
  /\ DistinctOriginals(given.pairs)
  /\ pc = "exited" /\ exit = "0"
  /\ Cardinality(Keys) = 2

C8_ExitStatus ==
  pc = "exited" =>
     /\ (exit = "1") <=> (argc < 3 \/ ~openable)
     /\ exit = "1" =>
          /\ cout = <<>> /\ cerr # <<>> /\ cerr[1] = "usage"
          /\ diag = "none" /\ header = NoHeader /\ hashmap_ = NoEntries
     /\ Decoding => exit = "0"

\* C10: memory safety of the decoder: every byte it reads (the header, the
\* table entries, the strings) lies inside [0, size), and every string stored
\* is the slice of the buffer of exactly the length its table entry declares
\* (the loop has stored the strings of the indices below i).
C10_ReadsInsideFile ==
  /\ ~readOutside
  /\ \A k \in 0..(i - 1) :
       (/\ EntryInsideFile(content, header.o_offset, k)
        /\ EntryInsideFile(content, header.t_offset, k)) =>
          /\ ~WidePastEnd(OrigEntry(k), size)
          /\ ~WidePastEnd(TransEntry(k), size)

\* what the claim has quote_escape_string put in place of the byte c
ClaimedEscape(c) ==
  IF c = CharNL THEN <<CharBackslash, 110>>
  ELSE IF c = CharTAB THEN <<CharBackslash, 116>>
  ELSE IF c = CharNUL THEN <<CharBackslash, 48>>
  ELSE IF c = CharQuote THEN <<CharBackslash, CharQuote>>
  ELSE IF c = CharBackslash THEN <<CharBackslash, CharBackslash>>
  ELSE <<c>>

RECURSIVE ClaimedBody(_)
ClaimedBody(str) ==
  IF str = <<>> THEN <<>> ELSE ClaimedEscape(Head(str)) \o ClaimedBody(Tail(str))

\* a double quote of text that no backslash escapes, reading text from the left
RECURSIVE HasBareQuote(_)
HasBareQuote(text) ==
  IF text = <<>> THEN FALSE
  ELSE IF Head(text) = CharBackslash
    THEN Len(text) >= 2 /\ HasBareQuote(Tail(Tail(text)))
  ELSE IF Head(text) = CharQuote THEN TRUE
  ELSE HasBareQuote(Tail(text))

\* C9: quote_escape_string(s) is a double quote, the claimed escape of each
\* byte of s in order, and a double quote; the result holds no raw newline,
\* tab or NUL and no unescaped double quote between its two ends; and no other
\* input gives the same result.
C9_Escape ==
  escOut # <<>> =>
     /\ escOut = <<CharQuote>> \o ClaimedBody(escIn) \o <<CharQuote>>
     /\ \A k \in 1..Len(escOut) : escOut[k] \notin {CharNL, CharTAB, CharNUL}
     /\ ~HasBareQuote(SubSeq(escOut, 2, Len(escOut) - 1))
     /\ \A other \in EscInputs :
          other # escIn => quote_escape_string(other) # escOut

\* C9's case: a string of a NUL and a double quote was escaped.
C9_Witness ==
  /\ escIn = <<CharNUL, CharQuote>>
  /\ escOut = <<CharQuote, CharBackslash, 48, CharBackslash, CharQuote, CharQuote>>

====
